---- MODULE Spec2Model ----
(***************************************************************************)
(* A model of the epscraper acquisition pipeline:                          *)
(*   epscraper/supersearcher.py   PDFSearcher, save_urls_to_file,          *)
(*                                search_pdfs                              *)
(*   superdownloader.py           PDFDownloader, download_pdfs             *)
(*   downloader.py                EpsteinFilesDownloader                   *)
(*   epscraper/search_and_download.py   search_and_download                *)
(*   epscrape/supermain.py        the data-set orchestrator                *)
(*   supersearcher.py             the searcher without page bounds         *)
(*   superocr.py                  process_pdf, process_all_pdfs            *)
(* The web site, the browser and the disk are the environment: each of     *)
(* their answers is a nondeterministic input of the action that asks.      *)
(***************************************************************************)
EXTENDS Integers, Sequences, FiniteSets, TLC

(***************************************************************************)
(* Bounds of the model.                                                    *)
(***************************************************************************)
MaxPages == 4

(* end_page=None, the default of search_and_extract *)
None == 0 - 1

VARIABLES
    \* ---- the browser sessions ever opened: owner, times quit, gate checks, gate clicks
    sessions,
    \* ---- the listing (site) and the searcher
    NPages,        \* number of result pages of the listing
    lastControl,   \* the next control the listing shows on its last page
    curPage,       \* the result page the browser shows
    s_pc,          \* position of search_pdfs
    start_page,
    end_page,
    page_num,
    all_urls,
    s_sess,        \* index in sessions of the searcher's driver, 0 when none
    extracted,     \* history: the pages extract_pdf_urls ran on, in order
    containers,    \* history: did the results container appear, per extraction
    nextClicks,    \* history: the page shown at each successful click_next_page
    clickFailed,   \* history: a click_next_page returned False
    saved,         \* history: "none", or how the write of the URL file ended
    fs,            \* the URL files: name -> [exists, lines]
    \* ---- the downloader (superdownloader.py)
    d_pc,          \* position of download_pdfs
    url_files,     \* its argument, a list of file names
    d_urls,        \* the URLs read from the files
    d_results,     \* what download_pdf returned for d_urls[1..Len(d_results)]
    d_sess,        \* index in sessions of the downloader's driver, 0 when none
    disk,          \* the output directory: file name -> "absent" | "pdf" | "partial"
    gateSeen,      \* history: was the age button found, per download_pdf call
    last,          \* history: what the last download_pdf call met
    rerun,         \* history: this is the second run over the same files
    prevFiles,     \* history: the complete PDFs on disk when the second run started
    \* ---- search_and_download (epscraper/search_and_download.py)
    w_pc,          \* position of search_and_download
    w_ret,         \* the pair it returns
    \* ---- the orchestrator (epscrape/supermain.py)
    m_pc,          \* position of main
    m_start,
    m_end,
    dataset_numbers,
    pdfs_by_dataset,
    downloaded_txt,   \* data/downloaded.txt: the sequence of its lines
    m_exit,        \* the exit code of main, NoExit while it runs
    m_second,      \* history: this is the second run of main
    txt_at_start,  \* history: downloaded.txt when this run of main started
    \* ---- the crawler (downloader.py)
    c_pc,          \* position of download_from_urls
    c_page,        \* the links of the listing page
    c_links,       \* the PDF links of the listing page
    c_class,       \* how the stats counted c_links[1..Len(c_class)]
    c_disk,        \* its output directory: name -> "absent" | "full" | "empty" | "partial"
    stats,         \* the statistics of download_from_urls
    c_second,      \* history: this is the second run on the same directory
    c_prev,        \* history: the directory when the second run started
    \* ---- the OCR stage (superocr.py)
    o_pc,          \* position of process_all_pdfs
    o_dir,         \* the names in the pdfs directory
    pdf_files,     \* the files the glob found
    o_worker,      \* per file: where its process_pdf call is, or what it returned
    o_texts,       \* the texts directory: name -> "absent"|"old"|"text"|"marker"|"partial"
    o_stats,       \* the statistics of process_all_pdfs
    o_writers,     \* history: per output name, the inputs whose call wrote it in this run
    o_clobbered,   \* history: a call opened for writing a file that was there
    o_second,      \* history: this is the second run on the same directories
    o_first,       \* history: how the first run ended
    o_texts0,      \* history: the texts directory when this run started
    \* ---- the searcher without page bounds (supersearcher.py), run on the
    \*      listing and the answers the bounded searcher met
    u_pc,          \* position of its search_and_extract
    u_page_num,
    u_cur,         \* the result page its browser shows
    u_all_urls,
    u_extracted,   \* the pages its extract_pdf_urls ran on, in order
    u_clicks,      \* the page shown at each of its successful click_next_page
    u_failed,      \* one of its click_next_page returned False
    u_checks,      \* its waits for the age button
    u_gateclicks,  \* its clicks of the age button
    \* ---- history
    searchButton,  \* what perform_search met: "-" (not asked), "clickable",
                   \* "covered" (another element would receive the click), "missing"
    f1_at_start    \* the lines of URL file F1 before the program ran

listing == <<NPages, lastControl>>
searchVars == <<listing, curPage, s_pc, start_page, end_page, page_num, all_urls,
                s_sess, extracted, containers, nextClicks, clickFailed, saved>>
dlVars == <<d_pc, url_files, d_urls, d_results, d_sess, disk, gateSeen, last,
            rerun, prevFiles>>
flowVars == <<w_pc, w_ret>>
mainVars == <<m_pc, m_start, m_end, dataset_numbers, pdfs_by_dataset, downloaded_txt,
              m_exit, m_second, txt_at_start>>
crawlVars == <<c_pc, c_page, c_links, c_class, c_disk, stats, c_second, c_prev>>
(* the parts that run on their own *)
ocrVars == <<o_pc, o_dir, pdf_files, o_worker, o_texts, o_stats, o_writers, o_clobbered,
            o_second, o_first, o_texts0>>
unbVars == <<u_pc, u_page_num, u_cur, u_all_urls, u_extracted, u_clicks, u_failed,
            u_checks, u_gateclicks>>
otherVars == <<crawlVars, ocrVars, unbVars, searchButton, f1_at_start>>
vars == <<sessions, searchVars, fs, dlVars, flowVars, mainVars, otherVars>>
notSearch == <<dlVars, flowVars, mainVars, otherVars>>
notDownload == <<searchVars, flowVars, mainVars, otherVars>>

(***************************************************************************)
(* URLs.  A URL is <<directory, stem, extension>>: the last path segment   *)
(* is stem + extension, the stem possibly percent-encoded.                 *)
(***************************************************************************)
UrlA  == <<1, "a", ".pdf">>
UrlA2 == <<2, "a", ".pdf">>
UrlB  == <<1, "b%20c", ".pdf">>
UrlUp == <<1, "d", ".PDF">>
Page  == <<1, "index", ".html">>
Urls  == {UrlA, UrlA2, UrlB, UrlUp}

(* The links the synthetic listing shows in the results container of page p. *)
LinksOnPage(p) ==
    CASE p % 3 = 1 -> <<UrlA, Page>>
      [] p % 3 = 2 -> <<UrlB, UrlUp>>
      [] OTHER     -> <<UrlA2, UrlA>>

(* href.endswith('.pdf') *)
EndsWithPdf(url) == url[3] = ".pdf"

(***************************************************************************)
(* URL files.  A line is a URL, a comment or a blank line.                 *)
(***************************************************************************)
FileNames == {"F1", "F2"}
NoFile    == [exists |-> FALSE, lines |-> <<>>]
Comment   == <<0, "#", "">>
Blank     == <<0, "", "">>

(***************************************************************************)
(* Sessions.                                                               *)
(***************************************************************************)
NewSession(owner) ==
    [owner |-> owner, quits |-> 0, checks |-> 0, clicks |-> 0, late |-> 0]

OpenSession(owner) == Append(sessions, NewSession(owner))

ExitQuits_inverted(driver) == driver = 0

(* __exit__: if self.driver: self.driver.quit() *)
ExitQuits(driver) == driver # 0

QuitSession(driver) ==
    IF ExitQuits(driver)
    THEN [sessions EXCEPT ![driver].quits = @ + 1]
    ELSE sessions

(* the bookkeeping of one gate check: checks counts the waits for          *)
(* age-button-yes, clicks the clicks, late the waits made after a click   *)
GateChecked(driver, waited, clicked) ==
    [sessions EXCEPT
       ![driver].checks = @ + (IF waited THEN 1 ELSE 0),
       ![driver].clicks = @ + (IF clicked THEN 1 ELSE 0),
       ![driver].late = @ + (IF waited /\ sessions[driver].clicks > 0 THEN 1 ELSE 0)]

(***************************************************************************)
(* PDFSearcher (epscraper/supersearcher.py)                                *)
(***************************************************************************)

(* The next control in the pagination of page p of the synthetic listing:  *)
(* an enabled button on every page but the last, and on the last page what *)
(* the listing chose: nothing, a disabled button, or a link marked disabled *)
Control(p) == IF p < NPages THEN "button" ELSE lastControl

(* has_next_page, lines 167-192: a next button that is enabled, or a next  *)
(* link, whose state is not looked at                                      *)
HasNext(control) == control \in {"button", "link", "link_disabled"}

has_next_page == HasNext(Control(curPage))

(* the listing goes to its next page when an enabled control is clicked *)
Advances(control, clicked) == clicked /\ control \in {"button", "link"}

(* the turns of the paging loop the model follows *)
MaxTurns == MaxPages + 2

(* extract_pdf_urls: the .pdf links of the results container, or nothing   *)
(* when the container did not appear within the wait.                      *)
extract_pdf_urls(page, containerOk) ==
    IF containerOk THEN SelectSeq(LinksOnPage(page), EndsWithPdf) ELSE <<>>

(* with PDFSearcher(...) as searcher: __enter__ starts the browser, or raises *)
PDFSearcher_enter ==
    /\ s_pc = "enter"
    /\ \E ok \in BOOLEAN :
         IF ok
         THEN /\ sessions' = OpenSession("searcher")
              /\ s_sess' = Len(sessions) + 1
              /\ s_pc' = "start"
         ELSE /\ s_pc' = "raised"
              /\ UNCHANGED <<sessions, s_sess>>
    /\ UNCHANGED <<listing, curPage, start_page, end_page, page_num, all_urls,
                   extracted, containers, nextClicks, clickFailed, saved, fs, notSearch>>

AfterNavigate_skipsGate == "query"

(* search_and_extract, lines 256-260: handle_age_verification is called    *)
(* once the search page has been loaded                                    *)
AfterNavigate == "gate"

(* search_and_extract, lines 252-257: driver.get(self.search_url) *)
search_navigate ==
    /\ s_pc = "start"
    /\ \E nav \in BOOLEAN :
         s_pc' = IF nav THEN AfterNavigate ELSE "unwind"
    /\ UNCHANGED <<sessions, listing, curPage, start_page, end_page, page_num,
                   all_urls, s_sess, extracted, containers, nextClicks, clickFailed,
                   saved, fs, notSearch>>

AfterGate_strict(gate) == IF gate = "clicked" THEN "query" ELSE "unwind"

(* handle_age_verification, lines 85-95: the TimeoutException of the wait   *)
(* is caught and the search goes on; an exception of the click is not      *)
AfterGate(gate) == IF gate = "clickraised" THEN "unwind" ELSE "query"

(* handle_age_verification, lines 83-95, called at line 260:               *)
(*   "absent": TimeoutException of the wait, caught; "clicked";            *)
(*   "clickraised": the click raised, which is not caught                  *)
handle_age_verification ==
    /\ s_pc = "gate"
    /\ \E gate \in {"absent", "clicked", "clickraised"} :
         /\ sessions' = GateChecked(s_sess, TRUE, gate # "absent")
         /\ s_pc' = AfterGate(gate)
    /\ UNCHANGED <<listing, curPage, start_page, end_page, page_num, all_urls,
                   s_sess, extracted, containers, nextClicks, clickFailed, saved, fs,
                   notSearch>>

(* epscraper/supersearcher.py line 117: the click is dispatched by a script *)
(* on the button found, whatever covers it; a missing input or button      *)
(* raises (lines 108, 115)                                                 *)
ScriptClick(button) == button # "missing"

(* supersearcher.py line 116, search_button.click(): the click of the      *)
(* driver raises ElementClickInterceptedException on a covered button,      *)
(* which the handler of line 122 does not catch                            *)
NativeClick(button) == button = "clickable"

(* perform_search, lines 97-125, called at line 263, and page_num = 1 of   *)
(* line 266; its TimeoutException and NoSuchElementException are re-raised *)
perform_search ==
    /\ s_pc = "query"
    /\ \E button \in {"clickable", "covered", "missing"} :
         /\ searchButton' = button
         /\ IF ScriptClick(button)
            THEN /\ all_urls' = <<>>
                 /\ page_num' = 1
                 /\ curPage' = 1
                 /\ s_pc' = "skip"
            ELSE /\ s_pc' = "unwind"
                 /\ UNCHANGED <<all_urls, page_num, curPage>>
    /\ UNCHANGED <<sessions, listing, start_page, end_page, s_sess, extracted,
                   containers, nextClicks, clickFailed, saved, fs, dlVars, flowVars,
                   mainVars, crawlVars, ocrVars, unbVars, f1_at_start>>

(* line 271 and line 290: if not self.click_next_page(): leave *)
ClickSucceeded(clicked) == clicked

(* search_and_extract, lines 269-274: one turn of the skip loop; clicked   *)
(* is what click_next_page returned                                        *)
skip_page ==
    /\ s_pc = "skip"
    /\ IF page_num < start_page /\ has_next_page
       THEN \E clicked \in BOOLEAN :
              /\ curPage' = IF Advances(Control(curPage), clicked)
                            THEN curPage + 1 ELSE curPage
              /\ nextClicks' = IF clicked THEN Append(nextClicks, curPage)
                               ELSE nextClicks
              /\ clickFailed' = (clickFailed \/ ~clicked)
              /\ IF ClickSucceeded(clicked)
                 THEN /\ page_num' = page_num + 1
                      /\ UNCHANGED s_pc
                 ELSE /\ s_pc' = "returned"
                      /\ UNCHANGED page_num
       ELSE /\ s_pc' = "extract"
            /\ UNCHANGED <<curPage, nextClicks, page_num, clickFailed>>
    /\ UNCHANGED <<sessions, listing, start_page, end_page, all_urls, s_sess,
                   extracted, containers, saved, fs, notSearch>>

ExtractRaises_timeout(containerOk) == ~containerOk

(* extract_pdf_urls, lines 155-156: the TimeoutException of the wait for   *)
(* the results container is caught                                         *)
ExtractRaises(containerOk) == FALSE

(* search_and_extract, lines 277-279: extraction of the start page *)
extract_start_page ==
    /\ s_pc = "extract"
    /\ \E containerOk \in BOOLEAN :
         /\ all_urls' = all_urls \o extract_pdf_urls(curPage, containerOk)
         /\ containers' = Append(containers, containerOk)
         /\ s_pc' = IF ExtractRaises(containerOk) THEN "unwind" ELSE "more"
    /\ extracted' = Append(extracted, curPage)
    /\ UNCHANGED <<sessions, listing, curPage, start_page, end_page, page_num,
                   s_sess, nextClicks, clickFailed, saved, fs, notSearch>>

StopAtEnd_late == end_page # None /\ page_num > end_page

StopAtEnd_never == FALSE

StopAtEnd_ignoresNone == page_num >= end_page

(* the loop test of lines 282-285 *)
StopAtEnd == end_page # None /\ page_num >= end_page

(* search_and_extract, lines 282-294: one turn of the paging loop; clicked *)
(* is what click_next_page returned                                        *)
next_page ==
    /\ s_pc = "more"
    /\ page_num < MaxTurns
    /\ IF has_next_page /\ ~StopAtEnd
       THEN /\ page_num' = page_num + 1
            /\ \E clicked \in BOOLEAN :
                 /\ curPage' = IF Advances(Control(curPage), clicked)
                               THEN curPage + 1 ELSE curPage
                 /\ nextClicks' = IF clicked THEN Append(nextClicks, curPage)
                                  ELSE nextClicks
                 /\ clickFailed' = (clickFailed \/ ~clicked)
                 /\ IF ClickSucceeded(clicked)
                    THEN /\ extracted' = Append(extracted, curPage')
                         /\ \E containerOk \in BOOLEAN :
                              /\ all_urls' = all_urls \o
                                    extract_pdf_urls(curPage', containerOk)
                              /\ containers' = Append(containers, containerOk)
                              /\ s_pc' = IF ExtractRaises(containerOk)
                                         THEN "unwind" ELSE "more"
                    ELSE /\ s_pc' = "returned"
                         /\ UNCHANGED <<extracted, containers, all_urls>>
       ELSE /\ s_pc' = "returned"
            /\ UNCHANGED <<page_num, curPage, nextClicks, extracted, containers,
                           all_urls, clickFailed>>
    /\ UNCHANGED <<sessions, listing, start_page, end_page, s_sess, saved, fs,
                   notSearch>>

(* an error no handler of search_and_extract catches (a WebDriverException *)
(* of a driver call) leaves the with block                                 *)
driver_error ==
    /\ s_pc \in {"skip", "extract", "more"}
    /\ s_pc' = "unwind"
    /\ UNCHANGED <<sessions, listing, curPage, start_page, end_page, page_num,
                   all_urls, s_sess, extracted, containers, nextClicks, clickFailed,
                   saved, fs, notSearch>>

(* the outcomes of the write of n lines: open() raised IOError (NoWrite),  *)
(* or the first k lines were written, an IOError ending the write if k < n *)
NoWrite == 0 - 1

WriteOutcomes(n) == {NoWrite, 0, n}

(* save_urls_to_file (epscraper/supersearcher.py): open(filename, 'a') and *)
(* one line per url; an IOError is printed, not raised.                    *)
save_urls_to_file(urls, file, written) ==
    IF written = NoWrite THEN file
    ELSE [exists |-> TRUE, lines |-> file.lines \o SubSeq(urls, 1, written)]

(* lines 317-318: except IOError prints the error; nothing is raised *)
SaveRaises(written, n) == FALSE

(* search_pdfs, lines 357-362, and __exit__ on the way out *)
search_pdfs_return ==
    /\ s_pc = "returned"
    /\ IF all_urls # <<>>
       THEN \E written \in WriteOutcomes(Len(all_urls)) :
              /\ fs' = [fs EXCEPT !["F1"] = save_urls_to_file(all_urls, @, written)]
              /\ saved' = IF written = Len(all_urls) THEN "ok" ELSE "failed"
              /\ s_pc' = IF SaveRaises(written, Len(all_urls)) THEN "raised"
                         ELSE "done"
       ELSE /\ s_pc' = "done"
            /\ UNCHANGED <<fs, saved>>
    /\ sessions' = QuitSession(s_sess)
    /\ UNCHANGED <<listing, curPage, start_page, end_page, page_num, all_urls,
                   s_sess, extracted, containers, nextClicks, clickFailed, notSearch>>

(* __exit__ on the error path: the error goes on to the caller *)
search_pdfs_unwind ==
    /\ s_pc = "unwind"
    /\ sessions' = QuitSession(s_sess)
    /\ s_pc' = "raised"
    /\ UNCHANGED <<listing, curPage, start_page, end_page, page_num, all_urls,
                   s_sess, extracted, containers, nextClicks, clickFailed, saved, fs,
                   notSearch>>

(***************************************************************************)
(* PDFDownloader (superdownloader.py)                                      *)
(***************************************************************************)
MaxLines == 2

(* unquote: percent-decoding of the last path segment *)
Unquote(stem) == IF stem = "b%20c" THEN "b c" ELSE stem

(* extract_filename: the last path segment, percent-decoded *)
extract_filename(url) == <<Unquote(url[2]), url[3]>>

DiskNames == {extract_filename(u) : u \in Urls}

FilesOnDisk == {n \in DiskNames : disk[n] # "absent"}

(* lines with surrounding whitespace: an indented comment, a line of       *)
(* spaces, and the line of UrlA followed by spaces                         *)
IndentedComment == <<0, " #", "">>
Spaces == <<0, " ", "">>
PaddedA == <<1, "a", ".pdf ">>

(* line.strip() *)
Strip(line) ==
    CASE line = IndentedComment -> Comment
      [] line = Spaces          -> Blank
      [] line = PaddedA         -> UrlA
      [] OTHER                  -> line

IsUrlLine_keepsComments(line) == line # Blank

(* if line and not line.startswith('#'), of the stripped line *)
IsUrlLine(line) == line # Blank /\ line # Comment

(* the reader of download_from_file and download_from_multiple_files *)
ReadUrls(lines) ==
    SelectSeq([i \in 1..Len(lines) |-> Strip(lines[i])], IsUrlLine)

RECURSIVE ReadAll(_)
ReadAll(files) ==
    IF files = <<>> THEN <<>>
    ELSE ReadUrls(fs[Head(files)].lines) \o ReadAll(Tail(files))

ValidPdf_anystatus(resp) == resp \in {"pdf200", "pdf404"}

(* line 134: status 200 and the %PDF magic *)
ValidPdf(resp) == resp = "pdf200"

(* What one download_pdf call meets:                                       *)
(*   nav    driver.get(url) succeeded                                      *)
(*   gate   "absent": age-button-yes not found within the wait;            *)
(*          "clicked"; "clickraised": found, the click raised              *)
(*   src    page_source: "html"; "pdf" (the payload itself, no <html in   *)
(*          it); "other"; or "raise"                                       *)
(*   resp   session.get: "raise", or status and payload                    *)
(*   write  open/write of the output file: "ok", "openfail", "partial"     *)
(* An answer that is never asked for (the call has left before) is "-".     *)
DownloadEnvs ==
    {e \in [nav : BOOLEAN, gate : {"absent", "clicked", "clickraised", "-"},
            src : {"html", "pdf", "other", "raise", "-"},
            resp : {"raise", "pdf200", "html200", "pdf404", "-"},
            write : {"ok", "openfail", "partial", "-"}] :
       /\ (e.gate = "-") = ~e.nav
       /\ (e.src = "-") = ~e.nav
       /\ (e.resp = "-") = (e.src # "html")
       /\ (e.write = "-") = ~ValidPdf(e.resp)}

(* the site showed the age button on this navigation *)
GatePresent(e) == e.nav /\ e.gate \in {"clicked", "clickraised"}

(* the site answered the HTTP request, and with what *)
Answered(e) == e.resp \notin {"raise", "-"}
GoodAnswer(e) == e.resp = "pdf200"

(* lines 99-102: the button is waited for on every call that navigated *)
GateWaited(e) == e.nav

ClickPath_always(e) == e.nav

(* lines 103-112: the click path runs when the wait found the button *)
ClickPath(e) == e.nav /\ e.gate \in {"clicked", "clickraised"}

(* the requests fallback of lines 121-132 is reached and answers *)
Fetched(e) == e.nav /\ e.src = "html" /\ e.resp \notin {"raise", "-"}

(* lines 135-136 are reached *)
Writes(e) == Fetched(e) /\ ValidPdf(e.resp)

(* the value download_pdf returns *)
download_pdf_ok(e) == Writes(e) /\ e.write = "ok"

(* the output file after the call *)
download_pdf_file(old, e) ==
    IF Writes(e)
    THEN CASE e.write = "ok"      -> "pdf"
           [] e.write = "partial" -> "partial"
           [] OTHER               -> old
    ELSE old

Met(url, e) ==
    [url |-> url,
     nav |-> e.nav,
     gate |-> GatePresent(e),
     fetch |-> IF ~Answered(e) THEN "none"
               ELSE IF GoodAnswer(e) THEN "pdf" ELSE "bad",
     before |-> disk[extract_filename(url)],
     direct |-> e.src = "pdf",
     write |-> e.write,
     ok |-> download_pdf_ok(e)]

NoCall == [url |-> Page, nav |-> FALSE, gate |-> FALSE, fetch |-> "none", before |-> "absent",
           direct |-> FALSE, write |-> "-", ok |-> FALSE]

AllExist_first(files) == fs[files[1]].exists

(* lines 223-225: os.path.exists for each of the files *)
AllExist(files) == \A i \in 1..Len(files) : fs[files[i]].exists

(* download_pdfs, lines 219-225: every URL file must exist *)
download_pdfs_validate ==
    /\ d_pc = "call"
    /\ d_pc' = IF AllExist(url_files) THEN "enter" ELSE "raised"
    /\ UNCHANGED <<sessions, notDownload, fs, url_files, d_urls, d_results, d_sess,
                   disk, gateSeen, last, rerun, prevFiles>>

(* with PDFDownloader(...) as downloader: __enter__ starts the browser, or raises *)
PDFDownloader_enter ==
    /\ d_pc = "enter"
    /\ \E ok \in BOOLEAN :
         IF ok
         THEN /\ sessions' = OpenSession("downloader")
              /\ d_sess' = Len(sessions) + 1
              /\ d_pc' = "read"
         ELSE /\ d_pc' = "raised"
              /\ UNCHANGED <<sessions, d_sess>>
    /\ UNCHANGED <<notDownload, fs, url_files, d_urls, d_results, disk, gateSeen,
                   last, rerun, prevFiles>>

(* download_from_file lines 155-160, download_from_multiple_files lines    *)
(* 176-185: the URL lines of the files, in the order given; open() may fail *)
read_url_files ==
    /\ d_pc = "read"
    /\ \E opened \in BOOLEAN :
         IF opened
         THEN /\ d_urls' = ReadAll(url_files)
              /\ d_pc' = "loop"
         ELSE /\ d_pc' = "unwind"
              /\ UNCHANGED d_urls
    /\ UNCHANGED <<sessions, notDownload, fs, url_files, d_results, d_sess, disk,
                   gateSeen, last, rerun, prevFiles>>

AfterCall_raises(ok) == IF ok THEN "loop" ELSE "unwind"

(* download_pdf lines 147-151 and download_from_file lines 165-169: every  *)
(* Exception of a call ends as the result False, and the loop goes on to   *)
(* the next URL whatever the call returned                                 *)
AfterCall(ok) == "loop"

(* download_pdf, called for the next URL of the list *)
download_pdf ==
    /\ d_pc = "loop"
    /\ Len(d_results) < Len(d_urls)
    /\ LET url == d_urls[Len(d_results) + 1]
           name == extract_filename(url)
       IN \E e \in DownloadEnvs :
            /\ sessions' = GateChecked(d_sess, GateWaited(e), ClickPath(e))
            /\ disk' = [disk EXCEPT ![name] = download_pdf_file(@, e)]
            /\ d_results' = Append(d_results, download_pdf_ok(e))
            /\ gateSeen' = Append(gateSeen, GatePresent(e))
            /\ last' = Met(url, e)
            /\ d_pc' = AfterCall(download_pdf_ok(e))
    /\ UNCHANGED <<notDownload, fs, url_files, d_urls, d_sess, rerun, prevFiles>>

(* the loop is over: success_count is returned and __exit__ quits the browser *)
download_pdfs_return ==
    /\ d_pc = "loop"
    /\ Len(d_results) = Len(d_urls)
    /\ sessions' = QuitSession(d_sess)
    /\ d_pc' = "done"
    /\ UNCHANGED <<notDownload, fs, url_files, d_urls, d_results, d_sess, disk,
                   gateSeen, last, rerun, prevFiles>>

(* a KeyboardInterrupt, which download_pdf's except Exception lets through *)
download_interrupt ==
    /\ d_pc = "loop"
    /\ d_pc' = "unwind"
    /\ UNCHANGED <<sessions, notDownload, fs, url_files, d_urls, d_results, d_sess,
                   disk, gateSeen, last, rerun, prevFiles>>

(* __exit__ on the error path: the error goes on to the caller *)
download_pdfs_unwind ==
    /\ d_pc = "unwind"
    /\ sessions' = QuitSession(d_sess)
    /\ d_pc' = "raised"
    /\ UNCHANGED <<notDownload, fs, url_files, d_urls, d_results, d_sess, disk,
                   gateSeen, last, rerun, prevFiles>>

(* the caller runs download_pdfs a second time on the same files and directory *)
download_again ==
    /\ d_pc = "done"
    /\ ~rerun
    /\ rerun' = TRUE
    /\ prevFiles' = {n \in DiskNames : disk[n] = "pdf"}
    /\ d_pc' = "call"
    /\ d_urls' = <<>>
    /\ d_results' = <<>>
    /\ gateSeen' = <<>>
    /\ last' = NoCall
    /\ d_sess' = 0
    /\ UNCHANGED <<sessions, notDownload, fs, url_files, disk>>

success_count == Cardinality({i \in 1..Len(d_results) : d_results[i]})

DownloadIdle ==
    /\ d_urls = <<>>
    /\ d_results = <<>>
    /\ d_sess = 0
    /\ disk = [n \in DiskNames |-> "absent"]
    /\ gateSeen = <<>>
    /\ last = NoCall
    /\ rerun = FALSE
    /\ prevFiles = {}

SearchIdle ==
    /\ NPages = 1
    /\ lastControl = "none"
    /\ saved = "none"
    /\ start_page = 1
    /\ end_page = None
    /\ curPage = 0
    /\ page_num = 0
    /\ all_urls = <<>>
    /\ s_sess = 0
    /\ extracted = <<>>
    /\ containers = <<>>
    /\ nextClicks = <<>>
    /\ clickFailed = FALSE
    /\ s_pc = "idle"

NoExit == 0 - 1

FlowIdle ==
    /\ w_pc = "idle"
    /\ w_ret = <<0, 0>>

MainIdle ==
    /\ m_pc = "idle"
    /\ m_start = 0
    /\ m_end = 0
    /\ dataset_numbers = <<>>
    /\ pdfs_by_dataset = <<>>
    /\ downloaded_txt = <<>>
    /\ m_exit = NoExit
    /\ m_second = FALSE
    /\ txt_at_start = <<>>

CrawlNames == {<<u[2], u[3]>> : u \in Urls}

NoStats == [urls_processed |-> 0, pdfs_found |-> 0, pdfs_downloaded |-> 0,
            pdfs_failed |-> 0, pdfs_skipped |-> 0]

CrawlIdle ==
    /\ c_pc = "idle"
    /\ c_page = <<>>
    /\ c_links = <<>>
    /\ c_class = <<>>
    /\ c_disk = [n \in CrawlNames |-> "absent"]
    /\ stats = NoStats
    /\ c_second = FALSE
    /\ c_prev = [n \in CrawlNames |-> "absent"]

(***************************************************************************)
(* File names of the OCR stage.  A name is the sequence of its parts       *)
(* between the dots: <<"a", "pdf">> is a.pdf, <<"", "pdf">> is .pdf.       *)
(***************************************************************************)
PdfDirNames == {<<"a", "pdf">>, <<"b", "pdf">>, <<"a", "PDF">>, <<"", "pdf">>,
                <<"", "pdf", "pdf">>}

(* pdf_path.glob('*.pdf'): the name ends with .pdf, in this case *)
GlobPdf(name) == Len(name) >= 2 /\ name[Len(name)] = "pdf"

(* Path.stem: the name without its last suffix; a name whose only dot is   *)
(* the first character, or whose last character is a dot, has no suffix    *)
stem(name) ==
    IF Len(name) >= 2 /\ name[Len(name)] # "" /\ ~(Len(name) = 2 /\ name[1] = "")
    THEN SubSeq(name, 1, Len(name) - 1)
    ELSE name

(* Path(output_dir) / (pdf_file.stem + '.txt') *)
OutputName(name) == Append(stem(name), "txt")

TextNames == {OutputName(n) : n \in PdfDirNames}

NoOcrStats == [total |-> 0, processed |-> 0, skipped |-> 0]

OcrIdle ==
    /\ o_pc = "idle"
    /\ o_dir = {}
    /\ pdf_files = {}
    /\ o_worker = [n \in PdfDirNames |-> "none"]
    /\ o_texts = [t \in TextNames |-> "absent"]
    /\ o_stats = NoOcrStats
    /\ o_writers = [t \in TextNames |-> {}]
    /\ o_clobbered = FALSE
    /\ o_second = FALSE
    /\ o_first = "none"
    /\ o_texts0 = [t \in TextNames |-> "absent"]

UnbIdle ==
    /\ u_pc = "idle"
    /\ u_page_num = 0
    /\ u_cur = 0
    /\ u_all_urls = <<>>
    /\ u_extracted = <<>>
    /\ u_clicks = <<>>
    /\ u_failed = FALSE
    /\ u_checks = 0
    /\ u_gateclicks = 0
    /\ searchButton = "-"

RECURSIVE SeqsUpTo(_, _)
SeqsUpTo(S, n) ==
    IF n = 0 THEN {<<>>}
    ELSE LET shorter == SeqsUpTo(S, n - 1)
         IN shorter \cup {Append(q, x) : q \in shorter, x \in S}

LineUniverse == {UrlA, UrlA2, UrlB, Comment}

InitDownload ==
    /\ SearchIdle
    /\ DownloadIdle
    /\ FlowIdle
    /\ MainIdle
    /\ CrawlIdle
    /\ OcrIdle
    /\ UnbIdle
    /\ sessions = <<>>
    /\ d_pc = "call"
    /\ url_files \in {<<"F1">>, <<"F1", "F2">>}
    /\ \E l1 \in SeqsUpTo(LineUniverse, MaxLines),
          f2 \in {NoFile, [exists |-> TRUE, lines |-> <<Blank, UrlB>>]} :
         fs = [f \in FileNames |->
                 IF f = "F1" THEN [exists |-> TRUE, lines |-> l1] ELSE f2]
    /\ f1_at_start = fs["F1"].lines

DownloadNext ==
    \/ download_pdfs_validate
    \/ PDFDownloader_enter
    \/ read_url_files
    \/ download_pdf
    \/ download_pdfs_return
    \/ download_interrupt
    \/ download_pdfs_unwind

SpecDownload == InitDownload /\ [][DownloadNext]_vars

(* download_pdfs up to the reading of its URL files, on files that also    *)
(* hold blank, indented and padded lines                                   *)
ReadLineUniverse == LineUniverse \cup {Blank, IndentedComment, Spaces, PaddedA}

InitRead ==
    /\ SearchIdle
    /\ DownloadIdle
    /\ FlowIdle
    /\ MainIdle
    /\ CrawlIdle
    /\ OcrIdle
    /\ UnbIdle
    /\ sessions = <<>>
    /\ d_pc = "call"
    /\ url_files \in {<<"F1">>, <<"F1", "F2">>, <<"F2", "F1">>}
    /\ \E l1 \in SeqsUpTo(ReadLineUniverse, MaxLines),
          f2 \in {NoFile, [exists |-> TRUE, lines |-> <<Blank, UrlB>>],
                  [exists |-> TRUE, lines |-> <<PaddedA, Comment, UrlA2>>]} :
         fs = [f \in FileNames |->
                 IF f = "F1" THEN [exists |-> TRUE, lines |-> l1] ELSE f2]
    /\ f1_at_start = fs["F1"].lines

ReadNext ==
    \/ download_pdfs_validate
    \/ PDFDownloader_enter
    \/ read_url_files
    \/ download_pdfs_unwind

SpecRead == InitRead /\ [][ReadNext]_vars

(* two runs of download_pdfs over the same URL file and output directory *)
InitTwice ==
    /\ InitDownload
    /\ url_files = <<"F1">>
    /\ \A i \in 1..Len(fs["F1"].lines) : fs["F1"].lines[i] \in {UrlA, UrlB}

TwiceNext == DownloadNext \/ download_again

SpecDownloadTwice == InitTwice /\ [][TwiceNext]_vars

SearchInit ==
    /\ NPages \in 1..MaxPages
    /\ lastControl \in {"none", "button_disabled", "link_disabled"}
    /\ saved = "none"
    /\ start_page \in 1..(MaxPages + 1)
    /\ end_page \in {None} \cup (1..(MaxPages + 1))
    /\ curPage = 0
    /\ page_num = 0
    /\ all_urls = <<>>
    /\ s_sess = 0
    /\ extracted = <<>>
    /\ containers = <<>>
    /\ nextClicks = <<>>
    /\ clickFailed = FALSE
    /\ s_pc = "enter"

SearchNext ==
    \/ PDFSearcher_enter
    \/ search_navigate
    \/ handle_age_verification
    \/ perform_search
    \/ skip_page
    \/ extract_start_page
    \/ next_page
    \/ driver_error
    \/ search_pdfs_return
    \/ search_pdfs_unwind

InitSearch ==
    /\ SearchInit
    /\ \E f1 \in {NoFile, [exists |-> TRUE, lines |-> <<UrlB>>]} :
         fs = [f \in FileNames |-> IF f = "F1" THEN f1 ELSE NoFile]
    /\ f1_at_start = fs["F1"].lines
    /\ DownloadIdle
    /\ FlowIdle
    /\ MainIdle
    /\ CrawlIdle
    /\ OcrIdle
    /\ UnbIdle
    /\ d_pc = "idle"
    /\ url_files = <<>>
    /\ sessions = <<>>

SpecSearch == InitSearch /\ [][SearchNext]_vars

(* search_pdfs runs in one thread and every wait of its helpers is bounded: *)
(* a step that can be taken is taken                                        *)
SpecSearchFair == InitSearch /\ [][SearchNext]_vars /\ WF_vars(SearchNext)

(***************************************************************************)
(* PDFSearcher.search_and_extract of supersearcher.py, the searcher        *)
(* without page bounds.  It runs once the bounded searcher has ended, on   *)
(* the same listing, and every question the bounded searcher asked the     *)
(* site gets the answer it got then; a question the bounded searcher never *)
(* asked gets any answer.                                                  *)
(***************************************************************************)
notUnb == <<sessions, searchVars, fs, dlVars, flowVars, mainVars, crawlVars, ocrVars,
           searchButton, f1_at_start>>

(* driver.get(self.search_url) succeeded for the bounded searcher *)
NavigatedBefore == sessions[s_sess].checks > 0

(* what the wait for the age button and its click gave the bounded searcher *)
GateBefore ==
    IF sessions[s_sess].clicks = 0 THEN "absent"
    ELSE IF searchButton = "-" THEN "clickraised" ELSE "clicked"

(* did the results container appear at the k-th extraction *)
ContainerAnswers(k) == IF k <= Len(containers) THEN {containers[k]} ELSE BOOLEAN

(* what the j-th click_next_page returned *)
ClickAnswers(j) ==
    IF j <= Len(nextClicks) THEN {TRUE}
    ELSE IF j = Len(nextClicks) + 1 /\ clickFailed THEN {FALSE} ELSE BOOLEAN

(* lines 251-260: driver.get, handle_age_verification, perform_search *)
unbounded_search ==
    /\ u_pc = "idle"
    /\ s_pc \in {"done", "raised"}
    /\ s_sess > 0
    /\ IF ~NavigatedBefore
       THEN /\ u_pc' = "raised"
            /\ UNCHANGED <<u_checks, u_gateclicks, u_cur>>
       ELSE /\ u_checks' = u_checks + 1
            /\ u_gateclicks' = u_gateclicks + (IF GateBefore # "absent" THEN 1 ELSE 0)
            /\ IF AfterGate(GateBefore) = "query" /\ NativeClick(searchButton)
               THEN u_pc' = "first" /\ u_cur' = 1
               ELSE u_pc' = "raised" /\ UNCHANGED u_cur
    /\ UNCHANGED <<u_page_num, u_all_urls, u_extracted, u_clicks, u_failed>>
    /\ UNCHANGED notUnb

(* lines 262-265: the extraction of the first page *)
unbounded_first_page ==
    /\ u_pc = "first"
    /\ u_page_num' = 1
    /\ \E containerOk \in ContainerAnswers(1) :
         /\ u_all_urls' = u_all_urls \o extract_pdf_urls(u_cur, containerOk)
         /\ u_pc' = IF ExtractRaises(containerOk) THEN "raised" ELSE "more"
    /\ u_extracted' = Append(u_extracted, u_cur)
    /\ UNCHANGED <<u_cur, u_clicks, u_failed, u_checks, u_gateclicks>>
    /\ UNCHANGED notUnb

(* lines 268-279: one turn of the paging loop, or the return *)
unbounded_next_page ==
    /\ u_pc = "more"
    /\ u_page_num < MaxTurns
    /\ IF HasNext(Control(u_cur))
       THEN /\ u_page_num' = u_page_num + 1
            /\ \E clicked \in ClickAnswers(Len(u_clicks) + 1) :
                 /\ u_cur' = IF Advances(Control(u_cur), clicked)
                             THEN u_cur + 1 ELSE u_cur
                 /\ u_clicks' = IF clicked THEN Append(u_clicks, u_cur) ELSE u_clicks
                 /\ u_failed' = (u_failed \/ ~clicked)
                 /\ IF ClickSucceeded(clicked)
                    THEN /\ u_extracted' = Append(u_extracted, u_cur')
                         /\ \E containerOk \in ContainerAnswers(Len(u_extracted) + 1) :
                              /\ u_all_urls' = u_all_urls \o
                                    extract_pdf_urls(u_cur', containerOk)
                              /\ u_pc' = IF ExtractRaises(containerOk)
                                         THEN "raised" ELSE "more"
                    ELSE /\ u_pc' = "returned"
                         /\ UNCHANGED <<u_extracted, u_all_urls>>
       ELSE /\ u_pc' = "returned"
            /\ UNCHANGED <<u_page_num, u_cur, u_clicks, u_extracted, u_all_urls, u_failed>>
    /\ UNCHANGED <<u_checks, u_gateclicks>>
    /\ UNCHANGED notUnb

(* the bounded searcher called with start_page=1 and end_page=None, then   *)
(* the searcher without bounds                                             *)
InitPair ==
    /\ InitSearch
    /\ start_page = 1
    /\ end_page = None

(* In both searchers an error of the driver that no handler catches ends    *)
(* the run at the call it hits; the two runs are compared without one.      *)
PairNext ==
    \/ PDFSearcher_enter
    \/ search_navigate
    \/ handle_age_verification
    \/ perform_search
    \/ skip_page
    \/ extract_start_page
    \/ next_page
    \/ search_pdfs_return
    \/ search_pdfs_unwind
    \/ unbounded_search
    \/ unbounded_first_page
    \/ unbounded_next_page

SpecPair == InitPair /\ [][PairNext]_vars

(***************************************************************************)
(* search_and_download (epscraper/search_and_download.py)                  *)
(***************************************************************************)
MaxFlowPages == 2

NothingFound_never(urls) == FALSE

(* line 44: if not urls *)
NothingFound(urls) == urls = <<>>

(* lines 41-60: search_pdfs has returned or raised; with URLs found,       *)
(* download_pdfs is called on the URL file                                 *)
search_and_download_search ==
    /\ w_pc = "search"
    /\ s_pc \in {"done", "raised"}
    /\ IF s_pc = "raised"
       THEN /\ w_pc' = "raised"
            /\ UNCHANGED <<w_ret, d_pc, url_files>>
       ELSE IF NothingFound(all_urls)
       THEN /\ w_pc' = "done"
            /\ w_ret' = <<0, 0>>
            /\ UNCHANGED <<d_pc, url_files>>
       ELSE /\ w_pc' = "download"
            /\ d_pc' = "call"
            /\ url_files' = <<"F1">>
            /\ UNCHANGED w_ret
    /\ UNCHANGED <<sessions, searchVars, fs, mainVars, otherVars, d_urls, d_results, d_sess,
                   disk, gateSeen, last, rerun, prevFiles>>

(* lines 60-69: download_pdfs has returned or raised *)
search_and_download_return ==
    /\ w_pc = "download"
    /\ d_pc \in {"done", "raised"}
    /\ IF d_pc = "raised"
       THEN /\ w_pc' = "raised"
            /\ UNCHANGED w_ret
       ELSE /\ w_pc' = "done"
            /\ w_ret' = <<Len(all_urls), success_count>>
    /\ UNCHANGED <<sessions, searchVars, fs, dlVars, mainVars, otherVars>>

(* one run of search_and_download, on a listing whose last page shows no    *)
(* next link                                                               *)
InitFlow ==
    /\ SearchInit
    /\ lastControl = "none"
    /\ NPages <= MaxFlowPages
    /\ start_page <= MaxFlowPages + 1
    /\ end_page <= MaxFlowPages + 1
    /\ DownloadIdle
    /\ MainIdle
    /\ CrawlIdle
    /\ OcrIdle
    /\ UnbIdle
    /\ d_pc = "idle"
    /\ url_files = <<>>
    /\ sessions = <<>>
    /\ w_pc = "search"
    /\ w_ret = <<0, 0>>
    /\ \E f1 \in {NoFile, [exists |-> TRUE, lines |-> <<UrlA2>>]} :
         fs = [f \in FileNames |-> IF f = "F1" THEN f1 ELSE NoFile]
    /\ f1_at_start = fs["F1"].lines

FlowNext ==
    \/ SearchNext
    \/ search_and_download_search
    \/ DownloadNext
    \/ search_and_download_return

SpecFlow == InitFlow /\ [][FlowNext]_vars

(***************************************************************************)
(* The orchestrator (epscrape/supermain.py)                                *)
(***************************************************************************)
MaxSet == 2
MinSet == 0 - 1

(* f'{dataset_num}\n': the decimal rendering, a sign and digits *)
FormatInt(n) == [neg |-> n < 0, digits |-> IF n < 0 THEN 0 - n ELSE n]

(* str.isdigit: every character is a digit, so a signed line is not *)
isdigit(line) == ~line.neg

(* int(line) of a line of digits *)
ParseDigits(line) == line.digits

(* load_downloaded_datasets: the numbers of the lines that are all digits *)
load_downloaded_datasets(txt) ==
    {ParseDigits(txt[i]) : i \in {j \in 1..Len(txt) : isdigit(txt[j])}}

(* save_downloaded_dataset: open(filename, 'a') and one line *)
save_downloaded_dataset(n, txt) == Append(txt, FormatInt(n))

generate_dataset_urls_all(start, end, downloaded) ==
    [i \in 1..(end - start + 1) |-> start + i - 1]

(* generate_dataset_urls, lines 89-94: range(start, end + 1) without the   *)
(* numbers loaded from downloaded.txt; one listing URL per number kept     *)
RECURSIVE generate_dataset_urls(_, _, _)
generate_dataset_urls(start, end, downloaded) ==
    IF start > end THEN <<>>
    ELSE (IF start \in downloaded THEN <<>> ELSE <<start>>)
         \o generate_dataset_urls(start + 1, end, downloaded)

(* the .pdf links of the page of data set n; the site has data sets 1, 2, ... *)
DatasetLinks(n) == IF n >= 1 THEN << <<n, "a", ".pdf">> >> ELSE <<>>

SeqToSet(q) == {q[i] : i \in 1..Len(q)}

RECURSIVE Flatten(_, _)
Flatten(numbers, by) ==
    IF numbers = <<>> THEN <<>>
    ELSE by[Head(numbers)] \o Flatten(Tail(numbers), by)

(* supermain.save_urls_to_file: open(filename, 'w'), one line per url *)
main_save_urls_to_file(urls) == [exists |-> TRUE, lines |-> urls]

(* main, lines 167-174 *)
main_generate ==
    /\ m_pc = "start"
    /\ dataset_numbers' =
         generate_dataset_urls(m_start, m_end, load_downloaded_datasets(downloaded_txt))
    /\ IF dataset_numbers' = <<>>
       THEN m_pc' = "exited" /\ m_exit' = 0
       ELSE m_pc' = "scrape" /\ UNCHANGED m_exit
    /\ UNCHANGED <<sessions, searchVars, fs, dlVars, flowVars, otherVars, m_start, m_end,
                   pdfs_by_dataset, downloaded_txt, m_second, txt_at_start>>

(* main, lines 176-193: scrape_all_pdfs (a page that cannot be fetched     *)
(* gives no URL), then the URL file is written and the download starts     *)
main_scrape ==
    /\ m_pc = "scrape"
    /\ \E fetched \in SUBSET SeqToSet(dataset_numbers) :
         pdfs_by_dataset' = [n \in SeqToSet(dataset_numbers) |->
                               IF n \in fetched THEN DatasetLinks(n) ELSE <<>>]
    /\ IF Flatten(dataset_numbers, pdfs_by_dataset') = <<>>
       THEN /\ m_pc' = "exited"
            /\ m_exit' = 0
            /\ UNCHANGED <<fs, d_pc, url_files>>
       ELSE /\ fs' = [fs EXCEPT !["F1"] =
                        main_save_urls_to_file(Flatten(dataset_numbers, pdfs_by_dataset'))]
            /\ m_pc' = "download"
            /\ d_pc' = "call"
            /\ url_files' = <<"F1">>
            /\ UNCHANGED m_exit
    /\ UNCHANGED <<sessions, searchVars, flowVars, otherVars, m_start, m_end, dataset_numbers,
                   downloaded_txt, m_second, txt_at_start, d_urls, d_results, d_sess,
                   disk, gateSeen, last, rerun, prevFiles>>

RegisterWhen_finally == d_pc \in {"done", "raised"}

(* main, lines 199-205: the registration follows the return of download_pdfs *)
RegisterWhen == d_pc = "done"

(* the data sets registered by this run so far *)
Registered == Len(downloaded_txt) - Len(txt_at_start)

(* main, lines 204-205: save_downloaded_dataset for the next data set; an  *)
(* error of the write ends main with exit code 1                           *)
main_register ==
    /\ m_pc = "download"
    /\ RegisterWhen
    /\ Registered < Len(dataset_numbers)
    /\ \E written \in BOOLEAN :
         IF written
         THEN /\ downloaded_txt' =
                   save_downloaded_dataset(dataset_numbers[Registered + 1], downloaded_txt)
              /\ UNCHANGED <<m_pc, m_exit>>
         ELSE /\ m_pc' = "exited"
              /\ m_exit' = 1
              /\ UNCHANGED downloaded_txt
    /\ UNCHANGED <<sessions, searchVars, fs, dlVars, flowVars, otherVars, m_start, m_end,
                   dataset_numbers, pdfs_by_dataset, m_second, txt_at_start>>

ExitCode_lenient(raised, count) == IF raised \/ count > 0 THEN 0 ELSE 1

(* main, line 210: sys.exit(0 if success_count > 0 else 1), and lines      *)
(* 212-217: an exception of the download phase ends in sys.exit(1)         *)
ExitCode(raised, count) == IF raised THEN 1 ELSE IF count > 0 THEN 0 ELSE 1

(* main, lines 206-217: the exit code *)
main_exit ==
    /\ m_pc = "download"
    /\ \/ d_pc = "raised"
       \/ d_pc = "done" /\ Registered = Len(dataset_numbers)
    /\ m_exit' = ExitCode(d_pc = "raised", success_count)
    /\ m_pc' = "exited"
    /\ UNCHANGED <<sessions, searchVars, fs, dlVars, flowVars, otherVars, m_start, m_end,
                   dataset_numbers, pdfs_by_dataset, downloaded_txt, m_second,
                   txt_at_start>>

(* a second run of main, on the files the first one left *)
main_again ==
    /\ m_pc = "exited"
    /\ ~m_second
    /\ m_second' = TRUE
    /\ txt_at_start' = downloaded_txt
    /\ \E a \in MinSet..MaxSet, b \in MinSet..MaxSet :
         a <= b /\ m_start' = a /\ m_end' = b
    /\ m_pc' = "start"
    /\ m_exit' = NoExit
    /\ dataset_numbers' = <<>>
    /\ pdfs_by_dataset' = <<>>
    /\ d_pc' = "idle"
    /\ url_files' = <<>>
    /\ d_urls' = <<>>
    /\ d_results' = <<>>
    /\ gateSeen' = <<>>
    /\ last' = NoCall
    /\ d_sess' = 0
    /\ UNCHANGED <<sessions, searchVars, fs, flowVars, otherVars, downloaded_txt, disk, rerun,
                   prevFiles>>

InitMain ==
    /\ SearchIdle
    /\ DownloadIdle
    /\ FlowIdle
    /\ CrawlIdle
    /\ OcrIdle
    /\ UnbIdle
    /\ d_pc = "idle"
    /\ url_files = <<>>
    /\ sessions = <<>>
    /\ fs = [f \in FileNames |-> NoFile]
    /\ f1_at_start = <<>>
    /\ m_pc = "start"
    /\ m_start \in MinSet..MaxSet
    /\ m_end \in m_start..MaxSet
    /\ dataset_numbers = <<>>
    /\ pdfs_by_dataset = <<>>
    /\ downloaded_txt = <<>>
    /\ m_exit = NoExit
    /\ m_second = FALSE
    /\ txt_at_start = <<>>

MainNext ==
    \/ main_generate
    \/ main_scrape
    \/ DownloadNext
    \/ main_register
    \/ main_exit
    \/ main_again

SpecMain == InitMain /\ [][MainNext]_vars

(***************************************************************************)
(* EpsteinFilesDownloader (downloader.py)                                  *)
(***************************************************************************)
MaxLinks == 2

(* href=re.compile(r'\.pdf$', re.IGNORECASE) *)
MatchesPdf(url) == url[3] \in {".pdf", ".PDF"}

(* extract_pdf_links: the PDF links of the page, or [] on a request error *)
extract_pdf_links(page, fetched) ==
    IF fetched THEN SelectSeq(page, MatchesPdf) ELSE <<>>

(* os.path.basename(urlparse(pdf_url).path): the last segment as it is *)
basename(url) == <<url[2], url[3]>>

(* lines 149-155 of download_from_urls: how the result is counted *)
Classify(returned, file) ==
    IF returned /\ file # "absent"
    THEN (IF file # "empty" THEN "pdfs_downloaded" ELSE "pdfs_skipped")
    ELSE "pdfs_failed"

(* download_from_urls, lines 137-142 *)
crawl_extract ==
    /\ c_pc = "extract"
    /\ \E fetched \in BOOLEAN :
         /\ c_links' = extract_pdf_links(c_page, fetched)
         /\ stats' = [stats EXCEPT !.urls_processed = @ + 1,
                                   !.pdfs_found = @ + Len(c_links')]
    /\ c_pc' = "loop"
    /\ UNCHANGED <<sessions, searchVars, fs, dlVars, flowVars, mainVars, ocrVars, unbVars, searchButton,
                   f1_at_start, c_page,
                   c_class, c_disk, c_second, c_prev>>

(* download_pdf and its counting, for the next link.  resp:                *)
(*   "error"   a RequestException before any byte is written               *)
(*   "full"    the body is written;  "empty": status 200 and no byte       *)
(*   "cut"     a RequestException while streaming: the file is unlinked    *)
(*   "ioerror" open or write fails: the error leaves download_from_urls    *)
crawl_download_pdf ==
    /\ c_pc = "loop"
    /\ Len(c_class) < Len(c_links)
    /\ LET name == basename(c_links[Len(c_class) + 1])
       IN IF c_disk[name] # "absent"
          THEN /\ c_class' = Append(c_class, Classify(TRUE, c_disk[name]))
               /\ stats' = [stats EXCEPT ![Classify(TRUE, c_disk[name])] = @ + 1]
               /\ UNCHANGED <<c_disk, c_pc>>
          ELSE \E resp \in {"error", "full", "empty", "cut", "ioerror"} :
                 IF resp = "ioerror"
                 THEN /\ c_disk' = [c_disk EXCEPT ![name] = "partial"]
                      /\ c_pc' = "raised"
                      /\ UNCHANGED <<c_class, stats>>
                 ELSE /\ c_disk' = [c_disk EXCEPT ![name] =
                                      IF resp \in {"full", "empty"} THEN resp ELSE "absent"]
                      /\ c_class' = Append(c_class,
                                           Classify(resp \in {"full", "empty"}, c_disk'[name]))
                      /\ stats' = [stats EXCEPT ![c_class'[Len(c_class')]] = @ + 1]
                      /\ UNCHANGED c_pc
    /\ UNCHANGED <<sessions, searchVars, fs, dlVars, flowVars, mainVars, ocrVars, unbVars, searchButton,
                   f1_at_start, c_page,
                   c_links, c_second, c_prev>>

(* download_from_urls returns the statistics *)
crawl_return ==
    /\ c_pc = "loop"
    /\ Len(c_class) = Len(c_links)
    /\ c_pc' = "done"
    /\ UNCHANGED <<sessions, searchVars, fs, dlVars, flowVars, mainVars, ocrVars, unbVars, searchButton,
                   f1_at_start, c_page,
                   c_links, c_class, c_disk, stats, c_second, c_prev>>

(* a second run on the same listing and the same directory *)
crawl_again ==
    /\ c_pc \in {"done", "raised"}
    /\ ~c_second
    /\ c_second' = TRUE
    /\ c_prev' = c_disk
    /\ c_pc' = "extract"
    /\ c_links' = <<>>
    /\ c_class' = <<>>
    /\ stats' = NoStats
    /\ UNCHANGED <<sessions, searchVars, fs, dlVars, flowVars, mainVars, ocrVars, unbVars, searchButton,
                   f1_at_start, c_page, c_disk>>

InitCrawl ==
    /\ SearchIdle
    /\ DownloadIdle
    /\ FlowIdle
    /\ MainIdle
    /\ OcrIdle
    /\ UnbIdle
    /\ d_pc = "idle"
    /\ url_files = <<>>
    /\ sessions = <<>>
    /\ fs = [f \in FileNames |-> NoFile]
    /\ f1_at_start = <<>>
    /\ c_pc = "extract"
    /\ c_page \in SeqsUpTo({UrlA, UrlB, UrlUp, Page}, MaxLinks)
    /\ c_links = <<>>
    /\ c_class = <<>>
    /\ c_disk = [n \in CrawlNames |-> "absent"]
    /\ stats = NoStats
    /\ c_second = FALSE
    /\ c_prev = [n \in CrawlNames |-> "absent"]

CrawlNext ==
    \/ crawl_extract
    \/ crawl_download_pdf
    \/ crawl_return
    \/ crawl_again

SpecCrawl == InitCrawl /\ [][CrawlNext]_vars

(***************************************************************************)
(* The OCR stage (superocr.py)                                             *)
(***************************************************************************)
MaxPdfs == 2

notOcr == <<sessions, searchVars, fs, dlVars, flowVars, mainVars, crawlVars, unbVars,
           searchButton, f1_at_start>>

(* output_file.exists(), line 46 *)
AlreadyConverted_never(file) == FALSE

AlreadyConverted(file) == file # "absent"

(* lines 60-63: what is written for the text the OCR returned *)
OcrOutput(ocr) == IF ocr = "text" THEN "text" ELSE "marker"

(* process_all_pdfs, lines 93-117: the glob, and one task per file found *)
process_all_pdfs_glob ==
    /\ o_pc = "start"
    /\ pdf_files' = {n \in o_dir : GlobPdf(n)}
    /\ IF pdf_files' = {}
       THEN /\ o_pc' = "done"
            /\ o_stats' = NoOcrStats
            /\ UNCHANGED o_worker
       ELSE /\ o_pc' = "run"
            /\ o_worker' = [n \in PdfDirNames |->
                               IF n \in pdf_files' THEN "queued" ELSE "none"]
            /\ UNCHANGED o_stats
    /\ UNCHANGED <<o_dir, o_texts, o_writers, o_clobbered, o_second, o_first, o_texts0>>
    /\ UNCHANGED notOcr

(* process_pdf, lines 42-48, in the worker of file n *)
process_pdf_exists(n) ==
    /\ o_pc = "run"
    /\ o_worker[n] = "queued"
    /\ o_worker' = [o_worker EXCEPT ![n] =
                       IF AlreadyConverted(o_texts[OutputName(n)]) THEN "false" ELSE "ocr"]
    /\ UNCHANGED <<o_pc, o_dir, pdf_files, o_texts, o_stats, o_writers, o_clobbered,
                   o_second, o_first, o_texts0>>
    /\ UNCHANGED notOcr

(* process_pdf, lines 52-77, in the worker of file n.                      *)
(*   ocr:  "text", "short" (fewer than 10 characters), "error" (it raises) *)
(*   w:    the write of lines 66-67: "ok", "noopen" (open fails, the file  *)
(*         is not touched), "cut" (the write fails after the open)         *)
(*   mk:   the same for the marker write of lines 75-76                    *)
process_pdf_convert(n) ==
    /\ o_pc = "run"
    /\ o_worker[n] = "ocr"
    /\ \E ocr \in {"text", "short", "error"}, w \in {"ok", "noopen", "cut"},
          mk \in {"ok", "noopen", "cut"} :
         LET out      == OutputName(n)
             wrote    == ocr # "error" /\ w # "noopen"
             caught   == ocr = "error" \/ w # "ok"
             afterTry == IF ~wrote THEN o_texts[out]
                         ELSE IF w = "ok" THEN OcrOutput(ocr) ELSE "partial"
             marked   == caught /\ mk # "noopen"
             atEnd    == IF ~marked THEN afterTry
                         ELSE IF mk = "ok" THEN "marker" ELSE "partial"
         IN /\ (ocr = "error") => w = "ok"
            /\ ~caught => mk = "ok"
            /\ o_texts' = [o_texts EXCEPT ![out] = atEnd]
            /\ o_worker' = [o_worker EXCEPT ![n] =
                               IF ~caught THEN "true"
                               ELSE IF mk = "ok" THEN "false" ELSE "raised"]
            /\ o_writers' = [o_writers EXCEPT ![out] =
                                IF wrote \/ marked THEN @ \cup {n} ELSE @]
            /\ o_clobbered' = (o_clobbered \/ ((wrote \/ marked) /\ o_texts[out] # "absent"))
    /\ UNCHANGED <<o_pc, o_dir, pdf_files, o_stats, o_second, o_first, o_texts0>>
    /\ UNCHANGED notOcr

(* process_all_pdfs, lines 120-133: the results are counted; an exception  *)
(* of a worker leaves process_all_pdfs through future.result()             *)
process_all_pdfs_collect ==
    /\ o_pc = "run"
    /\ \A n \in pdf_files : o_worker[n] \in {"true", "false", "raised"}
    /\ IF \E n \in pdf_files : o_worker[n] = "raised"
       THEN /\ o_pc' = "raised"
            /\ UNCHANGED o_stats
       ELSE /\ o_pc' = "done"
            /\ o_stats' = [total     |-> Cardinality(pdf_files),
                           processed |-> Cardinality({n \in pdf_files : o_worker[n] = "true"}),
                           skipped   |-> Cardinality({n \in pdf_files : o_worker[n] = "false"})]
    /\ UNCHANGED <<o_dir, pdf_files, o_worker, o_texts, o_writers, o_clobbered, o_second,
                   o_first, o_texts0>>
    /\ UNCHANGED notOcr

(* a second run on the same two directories *)
ocr_again ==
    /\ o_pc \in {"done", "raised"}
    /\ ~o_second
    /\ o_second' = TRUE
    /\ o_first' = o_pc
    /\ o_texts0' = o_texts
    /\ o_pc' = "start"
    /\ pdf_files' = {}
    /\ o_worker' = [n \in PdfDirNames |-> "none"]
    /\ o_stats' = NoOcrStats
    /\ o_writers' = [t \in TextNames |-> {}]
    /\ UNCHANGED <<o_dir, o_texts, o_clobbered>>
    /\ UNCHANGED notOcr

InitOcr ==
    /\ SearchIdle
    /\ DownloadIdle
    /\ FlowIdle
    /\ MainIdle
    /\ CrawlIdle
    /\ UnbIdle
    /\ d_pc = "idle"
    /\ url_files = <<>>
    /\ sessions = <<>>
    /\ fs = [f \in FileNames |-> NoFile]
    /\ f1_at_start = <<>>
    /\ o_pc = "start"
    /\ o_dir \in {S \in SUBSET PdfDirNames : Cardinality(S) <= MaxPdfs}
    /\ pdf_files = {}
    /\ o_worker = [n \in PdfDirNames |-> "none"]
    /\ o_texts \in [TextNames -> {"absent", "old"}]
    /\ o_stats = NoOcrStats
    /\ o_writers = [t \in TextNames |-> {}]
    /\ o_clobbered = FALSE
    /\ o_second = FALSE
    /\ o_first = "none"
    /\ o_texts0 = o_texts

OcrNext ==
    \/ process_all_pdfs_glob
    \/ \E n \in PdfDirNames : process_pdf_exists(n)
    \/ \E n \in PdfDirNames : process_pdf_convert(n)
    \/ process_all_pdfs_collect
    \/ ocr_again

SpecOcr == InitOcr /\ [][OcrNext]_vars

(* either public function, called on its own *)
InitEither == InitSearch \/ InitDownload

EitherNext == SearchNext \/ DownloadNext

SpecEither == InitEither /\ [][EitherNext]_vars

(***************************************************************************)
(* Properties of the page traversal.                                       *)
(***************************************************************************)
Range(lo, hi) == [i \in 1..(hi - lo + 1) |-> lo + i - 1]

SearchReturned == s_pc \in {"returned", "done"}

InBounds == end_page # None /\ start_page <= end_page /\ end_page <= NPages

(* C1: on a listing of N pages whose next control works, with               *)
(* 1 <= start_page <= end_page <= N, no next-page click is ever made from   *)
(* page end_page or later, and when search_and_extract has returned it has  *)
(* extracted exactly the pages start_page..end_page, each once, in          *)
(* increasing order, after exactly end_page - 1 next-page clicks.           *)
C1_PaginationBound ==
    InBounds =>
      /\ \A i \in 1..Len(nextClicks) : nextClicks[i] < end_page
      /\ (SearchReturned /\ ~clickFailed) =>
            /\ extracted = Range(start_page, end_page)
            /\ Len(nextClicks) = end_page - 1

C1_Witness ==
    /\ s_pc = "done"
    /\ ~clickFailed
    /\ NPages = 4 /\ start_page = 2 /\ end_page = 3
    /\ extracted = <<2, 3>>
    /\ nextClicks = <<1, 2>>

(* C17 (as claimed): no page before start_page is ever extracted, also on  *)
(* a listing that has fewer pages than start_page.                         *)
C17_NoPageBeforeStart ==
    \A i \in 1..Len(extracted) : extracted[i] >= start_page

(* C18 (as claimed): with an end_page given, no page after end_page is     *)
(* ever extracted, also when end_page < start_page.                        *)
C18_NoPageAfterEnd ==
    end_page # None => \A i \in 1..Len(extracted) : extracted[i] <= end_page

StrictlyIncreasing(q) == \A i \in 1..(Len(q) - 1) : q[i] < q[i + 1]

(* C19 (as claimed): with end_page = None the pages are extracted in       *)
(* strictly increasing order, the traversal is left only on a page without *)
(* a next page or after a click that reported failure, and when it is left *)
(* without such a failure every page from start_page to the last page of   *)
(* the listing has been extracted.                                         *)
C19_AllPagesToTheLast ==
    end_page = None =>
       /\ StrictlyIncreasing(extracted)
       /\ SearchReturned =>
            \/ clickFailed
            \/ /\ curPage = NPages
               /\ \A p \in start_page..NPages : \E i \in 1..Len(extracted) :
                     extracted[i] = p

(* C20 (as claimed): a turn of the paging loop extracts a further page     *)
(* only when the page shown has an enabled next control and                *)
(* click_next_page returned True; every other turn ends the traversal      *)
(* with the references collected so far.                                   *)
C20_AdvanceOnlyWhenEnabled ==
    [][(s_pc = "more" /\ s_pc' \in {"more", "returned"}) =>
          IF Len(extracted') = Len(extracted) + 1
          THEN /\ Control(curPage) \in {"button", "link"}
               /\ Len(nextClicks') = Len(nextClicks) + 1
               /\ extracted'[Len(extracted')] = extracted[Len(extracted)] + 1
          ELSE /\ s_pc' = "returned"
               /\ all_urls' = all_urls
               /\ extracted' = extracted]_vars

(* C21: in a run of search_and_extract the age button is waited for once:  *)
(* not before the search page has been loaded, exactly once by the time    *)
(* the query is submitted, and never again on the result pages.            *)
C21_GateCheckedOnce ==
    s_sess # 0 =>
       /\ sessions[s_sess].checks <= 1
       /\ s_pc = "start" => sessions[s_sess].checks = 0
       /\ s_pc \in {"query", "skip", "extract", "more", "returned", "done"} =>
            sessions[s_sess].checks = 1
       /\ (curPage > 0 \/ extracted # <<>>) => sessions[s_sess].checks = 1

C21_Witness ==
    /\ s_pc = "done"
    /\ sessions[s_sess].checks = 1
    /\ sessions[s_sess].clicks = 1
    /\ extracted = <<1, 2, 3>>

(* C22 (as claimed): when a run has failed after some pages were           *)
(* extracted, the references of those pages are in the URL file.           *)
C22_SavedPageByPage ==
    s_pc = "raised" =>
       \A i \in 1..Len(all_urls) :
          \E j \in 1..Len(fs["F1"].lines) : fs["F1"].lines[j] = all_urls[i]

(* the links of page p whose href ends with .pdf *)
PdfLinks(p) == SelectSeq(LinksOnPage(p), LAMBDA u : u[3] = ".pdf")

(* C23: an extraction on a page whose results container did not appear     *)
(* adds nothing and raises nothing: the traversal goes on from that page,   *)
(* and the references of the pages whose container appeared are kept and    *)
(* added as before.                                                         *)
C23_EmptyPageCarriesOn ==
    [][(Len(containers') = Len(containers) + 1) =>
          /\ s_pc' = "more"
          /\ extracted' = Append(extracted, curPage')
          /\ all_urls' = all_urls \o
               (IF containers'[Len(containers')] THEN PdfLinks(curPage') ELSE <<>>)]_vars

C23_Witness ==
    /\ s_pc = "done"
    /\ extracted = <<1, 2, 3>>
    /\ containers = <<TRUE, FALSE, TRUE>>
    /\ all_urls = PdfLinks(1) \o PdfLinks(3)
    /\ saved = "ok"

(* the links of page p whose href ends with .pdf in any letter case *)
PdfLinksAnyCase(p) == {u \in {LinksOnPage(p)[k] : k \in 1..Len(LinksOnPage(p))} :
                          u[3] \in {".pdf", ".PDF"}}

(* C24 (as claimed): the references collected are the links, of the pages  *)
(* extracted with their container, whose href ends with .pdf in any        *)
(* letter case.                                                            *)
C24_SuffixAnyCase ==
    {all_urls[i] : i \in 1..Len(all_urls)} =
       UNION {PdfLinksAnyCase(extracted[i]) :
                 i \in {k \in 1..Len(extracted) : containers[k]}}

(* the calls of click_next_page so far: one that returned False ends the run *)
ClickAttempts == Len(nextClicks) + (IF clickFailed THEN 1 ELSE 0)

(* C34: with an end_page given, search_pdfs ends (returns or raises) on     *)
(* every listing, and it never calls click_next_page more than              *)
(* max(start_page, end_page) - 1 times.                                     *)
C34_TerminatesWithinBound ==
    /\ [](end_page # None =>
            ClickAttempts <= (IF start_page > end_page THEN start_page ELSE end_page) - 1)
    /\ ((end_page # None) ~> (s_pc \in {"done", "raised"}))

C34_Witness ==
    /\ s_pc = "done"
    /\ lastControl = "link_disabled"
    /\ end_page # None
    /\ end_page > NPages + 1
    /\ start_page < end_page
    /\ ClickAttempts = end_page - 1
    /\ ~clickFailed

(* both searchers have ended *)
BothEnded == u_pc \in {"returned", "raised"} /\ s_pc \in {"done", "raised"}

(* the two runs made the same gate check, search, extractions and clicks,   *)
(* and ended the same way with the same URLs                                *)
SameRun ==
    /\ u_checks = sessions[s_sess].checks
    /\ u_gateclicks = sessions[s_sess].clicks
    /\ (u_pc = "returned") = (s_pc = "done")
    /\ u_extracted = extracted
    /\ u_clicks = nextClicks
    /\ u_failed = clickFailed
    /\ u_all_urls = all_urls

(* C39 (as claimed): on every listing the searcher without bounds makes the *)
(* same gate check, search, extractions and clicks, and returns the same    *)
(* URLs, as the bounded searcher called with start_page=1, end_page=None.   *)
C39_SameAsUnbounded == BothEnded => SameRun

(* C39 (amended): the two runs are the same unless the search button is     *)
(* covered; then the searcher without bounds raises in perform_search       *)
(* after the same gate check, having extracted nothing, while the bounded   *)
(* searcher goes on.                                                        *)
C39_SameUnlessCovered ==
    BothEnded =>
       IF searchButton = "covered"
       THEN /\ u_pc = "raised"
            /\ u_checks = sessions[s_sess].checks
            /\ u_gateclicks = sessions[s_sess].clicks
            /\ u_extracted = <<>>
            /\ u_clicks = <<>>
            /\ u_all_urls = <<>>
            /\ Len(extracted) > 0
       ELSE SameRun

C39_Witness ==
    /\ u_pc = "returned"
    /\ s_pc = "done"
    /\ searchButton = "clickable"
    /\ NPages = 3
    /\ u_extracted = <<1, 2, 3>>
    /\ u_clicks = <<1, 2>>
    /\ u_all_urls # <<>>
    /\ SameRun

NoDuplicates(q) == \A i, j \in 1..Len(q) : q[i] = q[j] => i = j

(* C4 (as claimed): the URL file never gives the same URL twice when it is  *)
(* read back for download, and the append of a discovery run adds as many   *)
(* lines as its result list has distinct URLs not yet in the file.          *)
C4_Dedup ==
    /\ NoDuplicates(ReadUrls(fs["F1"].lines))
    /\ (s_pc = "done" /\ fs["F1"].lines # f1_at_start) =>
          Len(fs["F1"].lines) - Len(f1_at_start) =
             Cardinality(SeqToSet(all_urls) \ SeqToSet(f1_at_start))

(***************************************************************************)
(* Properties of the download session.                                     *)
(***************************************************************************)
OnlyFirst(seen) == Len(seen) >= 1 /\ seen[1] /\ \A i \in 2..Len(seen) : ~seen[i]

(* C2: in one PDFDownloader session over a batch of URLs read from one or   *)
(* several files, when the site shows the age button on the first           *)
(* navigation only, the click path has run exactly once, however many URLs  *)
(* of the batch have been handled, and the batch used a single session.     *)
C2_GateAmortized ==
    (d_sess # 0 /\ OnlyFirst(gateSeen)) =>
       /\ sessions[d_sess].clicks = 1
       /\ Len(sessions) = 1

C2_Witness ==
    /\ d_pc = "done"
    /\ url_files = <<"F1", "F2">>
    /\ Len(d_results) = 3
    /\ OnlyFirst(gateSeen)
    /\ sessions[d_sess].clicks = 1

(* C9 (as claimed): in a PDFDownloader session the age button is clicked at *)
(* most once, and after a click no later download_pdf waits for it again.   *)
C9_GateAtMostOnce ==
    \A i \in 1..Len(sessions) :
       sessions[i].owner = "downloader" =>
          sessions[i].clicks <= 1 /\ sessions[i].late = 0

(* C6: a download_pdf call whose HTTP answer is not status 200 with the     *)
(* %PDF magic returns False, leaves the output directory as it was (no file *)
(* is created), and leaves the loop of the batch at its next URL.           *)
C6_BadPayload ==
    [][(Len(d_results') = Len(d_results) + 1 /\ last'.fetch = "bad") =>
          /\ d_results'[Len(d_results')] = FALSE
          /\ disk' = disk
          /\ d_pc' = "loop"
          /\ d_urls' = d_urls]_vars

C6_Witness ==
    /\ d_pc = "done"
    /\ Len(d_results) = 2
    /\ d_results = <<FALSE, TRUE>>
    /\ last.url # d_urls[1]
    /\ disk[extract_filename(d_urls[1])] = "absent"
    /\ FilesOnDisk = {extract_filename(d_urls[2])}

(* the URL lines of a file, in the order of the file *)
UrlLines(lines) ==
    SelectSeq(lines, LAMBDA line : line \notin {Blank, Comment})

(* C11: the k-th download_pdf call of a run is for the k-th URL line of the *)
(* file(s), a call that met a navigation error, an HTTP error or a bad      *)
(* payload gives the result False for its URL and leaves the loop at the    *)
(* next URL, and the run returns only after one call for every URL line.    *)
C11_EveryUrlInOrder ==
    [][/\ (Len(d_results') = Len(d_results) + 1) =>
            /\ last'.url = d_urls[Len(d_results')]
            /\ d_urls' = d_urls
            /\ d_pc' = "loop"
            /\ (last'.fetch # "pdf") => ~d_results'[Len(d_results')]
       /\ (d_pc' = "done") =>
            /\ Len(d_results') = Len(d_urls')
            /\ d_urls' = UrlLines(fs[url_files[1]].lines) \o
                           (IF Len(url_files) = 1 THEN <<>>
                            ELSE UrlLines(fs[url_files[2]].lines))]_vars

C11_Witness ==
    /\ d_pc = "done"
    /\ Len(d_urls) = 3
    /\ d_results = <<FALSE, FALSE, TRUE>>
    /\ last.url = d_urls[3]
    /\ d_urls[1] # d_urls[2]

(* the lines kept of a file: stripped, not empty, not starting with '#' *)
RECURSIVE KeptLines(_)
KeptLines(lines) ==
    IF lines = <<>> THEN <<>>
    ELSE LET stripped == Strip(Head(lines))
         IN (IF stripped = Blank \/ stripped = Comment THEN <<>> ELSE <<stripped>>)
            \o KeptLines(Tail(lines))

(* C28: the URLs download_pdfs has read are the stripped lines of its file, *)
(* or of its files in the order given, that are not empty and do not start  *)
(* with '#', in file order.                                                 *)
C28_ReaderRule ==
    d_pc = "loop" =>
       d_urls = KeptLines(fs[url_files[1]].lines) \o
                  (IF Len(url_files) = 1 THEN <<>>
                   ELSE KeptLines(fs[url_files[2]].lines))

C28_Witness ==
    /\ d_pc = "loop"
    /\ url_files = <<"F2", "F1">>
    /\ fs["F2"].lines = <<PaddedA, Comment, UrlA2>>
    /\ fs["F1"].lines = <<IndentedComment, UrlB>>
    /\ d_urls = <<UrlA, UrlA2, UrlB>>

(* C12 (as claimed): a download_pdf call for a URL whose complete PDF is    *)
(* already in the output directory navigates nowhere, sends no HTTP request *)
(* and leaves the file as it was.                                           *)
C12_SkipPresent ==
    (Len(d_results) > 0 /\ last.before = "pdf") =>
       /\ ~last.nav
       /\ last.fetch = "none"
       /\ disk[extract_filename(last.url)] = "pdf"

(* C13 (as claimed): no truncated file is ever in the output directory      *)
(* under the name of a PDF.                                                 *)
C13_NoPartialFile == \A n \in DiskNames : disk[n] # "partial"

(* C15 (as claimed): once a validated PDF payload could not be written, the *)
(* loop has been left with an error that goes to the caller of              *)
(* download_pdfs; the item is not an ordinary failed download.              *)
C15_StorageFailureAborts ==
    (Len(d_results) > 0 /\ last.fetch = "pdf" /\ ~last.ok) =>
       d_pc \in {"unwind", "raised"}

(* C31 (as claimed): a download_pdf call whose navigation rendered the PDF  *)
(* payload itself has saved it and returned True, and the HTTP replay is    *)
(* made only when the rendered content is HTML.                             *)
C31_DirectPayloadSaved ==
    (Len(d_results) > 0) =>
       /\ last.direct => (last.ok /\ disk[extract_filename(last.url)] = "pdf")
       /\ (last.fetch # "none") => ~last.direct

(* C32: when the age button did not appear within the wait,                *)
(* handle_age_verification goes on to the search, and download_pdf goes on  *)
(* to the fetch: the loop continues, and a good answer that could be        *)
(* written is a saved file and the result True.                             *)
C32_MissingGateProceeds ==
    [][/\ (/\ s_pc = "gate"
           /\ sessions'[s_sess].checks = sessions[s_sess].checks + 1
           /\ sessions'[s_sess].clicks = sessions[s_sess].clicks) => s_pc' = "query"
       /\ (/\ Len(d_results') = Len(d_results) + 1
           /\ last'.nav
           /\ ~last'.gate) =>
              /\ d_pc' = "loop"
              /\ (last'.fetch = "pdf" /\ last'.write = "ok") =>
                    (last'.ok /\ disk'[extract_filename(last'.url)] = "pdf")]_vars

C32_Witness ==
    /\ s_pc = "done"
    /\ s_sess > 0
    /\ sessions[s_sess].checks = 1
    /\ sessions[s_sess].clicks = 0
    /\ all_urls # <<>>

(* C33: when one of the URL files given to download_pdfs does not exist,   *)
(* the call has raised once it has left its validation, and no browser      *)
(* session was opened, no URL was read and no download was attempted.       *)
C33_MissingFileRaisesFirst ==
    ((\E i \in 1..Len(url_files) : ~fs[url_files[i]].exists) /\ d_pc # "call") =>
       /\ d_pc = "raised"
       /\ sessions = <<>>
       /\ d_urls = <<>>
       /\ d_results = <<>>
       /\ \A n \in DiskNames : disk[n] = "absent"

C33_Witness ==
    /\ d_pc = "raised"
    /\ url_files = <<"F1", "F2">>
    /\ fs["F1"].exists
    /\ Len(ReadUrls(fs["F1"].lines)) > 0
    /\ ~fs["F2"].exists
    /\ sessions = <<>>

(* C40 (as claimed): two successful downloads of one run, for different     *)
(* URLs, were saved under different file names.                             *)
C40_DistinctDestinations ==
    \A i, j \in 1..Len(d_results) :
       (d_results[i] /\ d_results[j] /\ d_urls[i] # d_urls[j]) =>
          extract_filename(d_urls[i]) # extract_filename(d_urls[j])

Finished(owner) ==
    IF owner = "searcher" THEN s_pc \in {"done", "raised"}
    ELSE d_pc \in {"done", "raised"}

(* C8: a browser session opened by search_pdfs or download_pdfs is never    *)
(* quit twice, and once the function has returned or raised, whatever the   *)
(* exit path, it has been quit exactly once.                                *)
C8_SessionReleased ==
    \A i \in 1..Len(sessions) :
       /\ sessions[i].quits <= 1
       /\ Finished(sessions[i].owner) => sessions[i].quits = 1

C8_Witness ==
    /\ Len(sessions) = 1
    /\ sessions[1].quits = 1
    /\ \/ s_pc = "raised" /\ extracted # <<>>
       \/ d_pc = "raised" /\ d_results # <<>>

PresentBefore(i) == extract_filename(d_urls[i]) \in prevFiles

(* C3 (as claimed): after the second run over the same URL file and output  *)
(* directory, every item whose PDF was already there has been classified    *)
(* as already present, not as a fresh download, and when every item's PDF   *)
(* was there the files on disk are those the first run left.                *)
C3_Idempotent ==
    (rerun /\ d_pc = "done") =>
       /\ (\A i \in 1..Len(d_urls) : PresentBefore(i)) => FilesOnDisk = prevFiles
       /\ \A i \in 1..Len(d_results) : PresentBefore(i) => ~d_results[i]

(* C3, for the crawler of downloader.py: its second run counts a file that  *)
(* is already there as pdfs_skipped, not as pdfs_downloaded.                *)
C3_CrawlerSkips ==
    (c_second /\ c_pc = "done") =>
       \A i \in 1..Len(c_class) :
          c_prev[basename(c_links[i])] = "full" => c_class[i] = "pdfs_skipped"

(* C14 (as claimed): once the write of the URL file has failed,            *)
(* search_pdfs has not returned normally and no download phase has begun.  *)
C14_WriteFailureSurfaces ==
    saved = "failed" => (s_pc = "raised" /\ d_pc = "idle")

IsPrefix(p, q) == Len(p) <= Len(q) /\ SubSeq(q, 1, Len(p)) = p

(* C16 (as claimed): every write of a URL file keeps the lines the file    *)
(* had: its content before the write is a prefix of its content after.     *)
C16_AppendOnly ==
    [][\A f \in FileNames : IsPrefix(fs[f].lines, fs'[f].lines)]_vars

(* C35 (as claimed): the download phase of search_and_download attempts    *)
(* only URLs that this run's search found, and the pair returned has        *)
(* pdfs_downloaded <= urls_found.                                           *)
C35_DownloadsOnlyFound ==
    /\ (w_pc = "download") => SeqToSet(d_urls) \subseteq SeqToSet(all_urls)
    /\ (w_pc = "done") => w_ret[2] <= w_ret[1]

(* the browser sessions that are open *)
OpenSessions == {i \in 1..Len(sessions) : sessions[i].quits = 0}

(* C38: during search_and_download at most one browser session is open;    *)
(* the session of the discovery has been quit when the session of the       *)
(* download exists; and a discovery that returned no URL ends in (0, 0)      *)
(* with no download session ever opened.                                    *)
C38_OneSessionAtATime ==
    /\ Cardinality(OpenSessions) <= 1
    /\ \A i, j \in 1..Len(sessions) :
          (sessions[i].owner = "searcher" /\ sessions[j].owner = "downloader") =>
             sessions[i].quits = 1
    /\ (s_pc = "done" /\ all_urls = <<>>) =>
          /\ \A i \in 1..Len(sessions) : sessions[i].owner # "downloader"
          /\ w_pc \in {"search", "done"}
          /\ w_pc = "done" => w_ret = <<0, 0>>

C38_Witness ==
    /\ w_pc = "download"
    /\ d_pc = "loop"
    /\ Len(sessions) = 2
    /\ sessions[1].owner = "searcher"
    /\ sessions[1].quits = 1
    /\ sessions[2].owner = "downloader"
    /\ sessions[2].quits = 0
    /\ Len(d_results) > 0

TotalClicks ==
    LET RECURSIVE Sum(_)
        Sum(i) == IF i = 0 THEN 0 ELSE sessions[i].clicks + Sum(i - 1)
    IN Sum(Len(sessions))

(* C10 (as claimed): one run of search_and_download opens a single browser  *)
(* session, shared by discovery and download, and clicks the age button at  *)
(* most once over both phases.                                              *)
C10_SingleSession ==
    /\ Len(sessions) <= 1
    /\ TotalClicks <= 1

(***************************************************************************)
(* Properties of the orchestrator.                                         *)
(***************************************************************************)
(* the data set numbers written to downloaded.txt before this run *)
Persisted ==
    {n \in MinSet..MaxSet :
       \E i \in 1..Len(txt_at_start) : txt_at_start[i] = FormatInt(n)}

RECURSIVE Ascending(_)
Ascending(S) ==
    IF S = {} THEN <<>>
    ELSE LET lo == CHOOSE x \in S : \A y \in S : x <= y
         IN <<lo>> \o Ascending(S \ {lo})

(* C5 (as claimed): once main has generated its work units, they are        *)
(* exactly the numbers of [start, end] that were not persisted as complete, *)
(* in increasing order, and no persisted number is scraped or downloaded.   *)
C5_Resume ==
    (m_pc \in {"scrape", "download", "exited"}) =>
       /\ dataset_numbers = Ascending({n \in m_start..m_end : n \notin Persisted})
       /\ \A n \in Persisted :
             /\ n \notin DOMAIN pdfs_by_dataset
             /\ \A i \in 1..Len(d_urls) : d_urls[i][1] # n

(* C25: when the download phase of main has raised, main has registered   *)
(* no data set in this run, and once it has exited its code is not 0.      *)
C25_RaisedDownloadExitsNonZero ==
    (m_pc \in {"download", "exited"} /\ d_pc = "raised") =>
       /\ Registered = 0
       /\ m_pc = "exited" => m_exit # 0

C25_Witness ==
    /\ m_pc = "exited"
    /\ d_pc = "raised"
    /\ m_exit = 1
    /\ Len(dataset_numbers) = 2
    /\ downloaded_txt = txt_at_start
    /\ fs["F1"].exists

(* C26 (as claimed): main exits with code 0 exactly when a PDF was          *)
(* downloaded in the run or every data set of the range was already         *)
(* registered as complete.                                                  *)
C26_ExitZeroExactly ==
    m_pc = "exited" =>
       (m_exit = 0 <=>
          \/ success_count > 0
          \/ \A n \in m_start..m_end : n \in Persisted)

(* C27 (as claimed): every data set number that save_downloaded_dataset     *)
(* has written to downloaded.txt is in the set load_downloaded_datasets     *)
(* reads from it.                                                           *)
C27_SaveLoadRoundTrip ==
    \A n \in MinSet..MaxSet :
       (\E i \in 1..Len(downloaded_txt) : downloaded_txt[i] = FormatInt(n)) =>
          n \in load_downloaded_datasets(downloaded_txt)

(* C36: as long as the runs of main were over positive data set numbers,   *)
(* downloaded.txt holds every number at most once, and no step of main      *)
(* takes a number out of it.                                                *)
C36_CompletedOnceEach ==
    /\ []((/\ m_start >= 1
            /\ \A i \in 1..Len(downloaded_txt) :
                  ~downloaded_txt[i].neg /\ downloaded_txt[i].digits >= 1) =>
             NoDuplicates(downloaded_txt))
    /\ [][load_downloaded_datasets(downloaded_txt) \subseteq
             load_downloaded_datasets(downloaded_txt')]_vars

C36_Witness ==
    /\ m_second
    /\ m_pc = "exited"
    /\ m_exit = 0
    /\ m_start = 1
    /\ m_end = 2
    /\ txt_at_start = <<FormatInt(1)>>
    /\ downloaded_txt = <<FormatInt(1), FormatInt(2)>>

(* C37 (as claimed): a data set whose listing page could not be fetched in *)
(* this run (the site has PDFs for it, the scrape gave none) is not among   *)
(* the data sets this run has registered in downloaded.txt.                 *)
C37_UnfetchedNotMarked ==
    \A k \in 1..Registered :
       LET n == dataset_numbers[k]
       IN DatasetLinks(n) # <<>> => pdfs_by_dataset[n] # <<>>

(* C7: whenever this run of main has appended a data set number to          *)
(* downloaded.txt, download_pdfs has returned and every PDF URL discovered  *)
(* for that data set is among the URLs it attempted.                        *)
C7_MarkAfterAttempts ==
    (Registered > 0) =>
       /\ d_pc = "done"
       /\ Len(d_results) = Len(d_urls)
       /\ \A k \in 1..Registered :
             SeqToSet(pdfs_by_dataset[dataset_numbers[k]]) \subseteq SeqToSet(d_urls)

C7_Witness ==
    /\ m_pc = "exited"
    /\ m_exit = 0
    /\ dataset_numbers = <<0, 1, 2>>
    /\ Registered = 3
    /\ d_results = <<FALSE, TRUE>>

(***************************************************************************)
(* Properties of the OCR stage.                                            *)
(***************************************************************************)
(* C29 (as claimed): in one run of process_all_pdfs no output file is       *)
(* written by the workers of two different input PDFs, and the input PDFs   *)
(* of the run map to pairwise distinct output names.                        *)
C29_DisjointOutputs ==
    /\ \A t \in TextNames : Cardinality(o_writers[t]) <= 1
    /\ \A m, n \in pdf_files : m # n => OutputName(m) # OutputName(n)

====
